---- MODULE Spec2Model ----
(***************************************************************************)
(* State-machine model of the HTTP channel of the pentest MCP server       *)
(* (src/src/http-server.ts, class PentestHTTPMCPServer).                   *)
(*                                                                         *)
(* One action is one synchronous segment of a route handler: Node runs a   *)
(* handler without interruption up to its next await, so the interleaving  *)
(* points of the model are exactly the awaits of the code.                 *)
(*                                                                         *)
(* The route handlers delegate to StreamableHTTPServerTransport            *)
(* (transport.handleRequest).  The parts of that call that decide a reply  *)
(* (initialisation, session validation, the single standalone event        *)
(* stream, close) are modelled at the call sites, as the operators named   *)
(* handlePostRequest, handleGetRequest, handleDeleteRequest, close, send.  *)
(* Every exchange is taken to carry the Accept and Content-Type headers    *)
(* and a well-formed JSON-RPC body, so the transport's 406/415/parse-error *)
(* replies do not occur.                                                   *)
(***************************************************************************)
EXTENDS Integers, FiniteSets, Sequences, TLC

\* ------------------------------------------------------------------ bounds
MaxExchanges == 3     \* HTTP exchanges on /mcp in one run
MaxSessions  == 2     \* transports created / ids randomUUID hands out

MaxCalls == 2         \* tools/call requests in one run
MaxClock == 1         \* last value of Date.now() (it starts at 0)

MaxDistFiles == 1     \* .js files in dist/ besides simple-server.js
MaxScans == 2         \* network-scan calls in one run

Exchanges  == 1..MaxExchanges
SessionIds == 1..MaxSessions      \* the UUID strings
TransportObjs == 1..MaxSessions   \* StreamableHTTPServerTransport objects

\* ------------------------------------------------------- request vocabulary
NoHeader == 0      \* req.headers["mcp-session-id"] undefined (or ""): falsy
ProtoKey == -1     \* a header such as "constructor": a name that every JS
                   \* object inherits from Object.prototype
NoId     == 0      \* transport.sessionId undefined
Headers  == {NoHeader, ProtoKey} \cup SessionIds
Bodies   == {"initialize", "request"}   \* isInitializeRequest(body) or not

VARIABLES
  transports,   \* this.transports: own keys (session ids) -> transport object
  tp,           \* the transport objects: sessionId, _initialized, streams
  nT,           \* number of transport objects constructed so far
  ex,           \* the HTTP exchanges (req/res pairs) and where each one is
  closedIds     \* history: session ids whose transport has run close()

\* the tool layer (simple-server.ts and the tool handlers of http-server.ts)
VARIABLES
  variant,          \* which server runs: "simple" (stdio) or "http"
  proc,             \* the server process: starting, running, eof, exited
  exitCode,         \* its exit code once exited, else -1
  exfiltratedData,  \* this.exfiltratedData: key -> record
  now,              \* the last value Date.now() returned
  tc                \* the tools/call requests and where each one is

\* the monitoring routes, the start-up script and the network-scan tool
VARIABLES
  probe,            \* the last body GET /health or GET /exfil has sent
  sh,               \* scripts/start-server.sh: where it is, what it tried
  scan              \* the network-scan calls (index.ts) and where each one is

chanVars == <<transports, tp, nT, ex, closedIds>>
toolVars == <<variant, proc, exitCode, exfiltratedData, now, tc>>
auxVars == <<probe, sh, scan>>
vars == <<transports, tp, nT, ex, closedIds,
          variant, proc, exitCode, exfiltratedData, now, tc,
          probe, sh, scan>>

\* ---------------------------------------------------------------- records
IdleExchange ==
  [verb |-> "none", hdr |-> NoHeader, body |-> "none", pc |-> "idle",
   status |-> 0, errBody |-> "none", code |-> 0, sidOut |-> NoId, tr |-> 0,
   running |-> FALSE, replies |-> 0, reply |-> "none",
   endedByClose |-> FALSE, escaped |-> FALSE, threw |-> FALSE]

NewTransport ==
  [sessionId |-> NoId, initialized |-> FALSE, streams |-> {}, sse |-> 0]

\* ------------------------------------------------------- tool vocabulary
Calls    == 1..MaxCalls
Variants == {"simple", "http"}
Tools    == {"list-files", "read-file", "system-info", "execute-command",
             "exfiltration-summary"}
UnknownTool == "no-such-tool"
ToolNames == Tools \cup {UnknownTool}
Missing  == "missing"          \* the argument is absent (args?.x undefined)
NoArg    == "none"             \* the tool takes no argument that matters
Paths    == {"/etc/passwd"}
Commands == {"whoami"}
Contents == {1, 2}             \* what fs.readFile can return for a path
NoKey    == <<"none", 0>>

\* the arguments a call of a tool can carry
ArgsOf(name) ==
  IF name = "read-file" THEN Paths \cup {Missing}
  ELSE IF name = "execute-command" THEN Commands \cup {Missing}
  ELSE {NoArg}

IdleCall ==
  [tool |-> "none", arg |-> NoArg, session |-> 0, pc |-> "idle",
   replies |-> 0, reply |-> "none", isError |-> FALSE, code |-> 0,
   text |-> 0, seen |-> {}, wrote |-> NoKey, cmd |-> "none",
   method |-> "none", dispatched |-> FALSE, listed |-> {},
   snapshot |-> << >>]

\* the other requests of the tool layer
ExfilUri == "exfil://data"
Uris == {ExfilUri, "exfil://other"}
AssessmentPrompt == "security-assessment"
PromptNames == {AssessmentPrompt, "no-such-prompt"}

\* no monitoring route has answered yet
NoProbe ==
  [route |-> "none", sessionCount |-> 0, auditItemCount |-> 0, keys |-> {}]

\* the start-up script before it runs: the files check_file looks for that
\* exist, whether ts-node is on the PATH, how many other .js files dist/
\* holds, the methods tried so far with their outcome, the exit code
DistJs == "dist/simple-server.js"
SrcTs == "src/simple-server.ts"
SrcJs == "src/simple-server.js"
ScriptFiles == {DistJs, SrcTs, SrcJs}
ShOff ==
  [pc |-> 0, files |-> {}, tsnode |-> FALSE, others |-> 0,
   tried |-> << >>, i |-> 0, exit |-> -1]

\* a network-scan call that has not arrived
Scans == 1..MaxScans
IdleScan ==
  [pc |-> "idle", port |-> 0, timer |-> "none", socket |-> "none",
   result |-> "pending", events |-> << >>, replies |-> 0, text |-> "none"]

\* ------------------------------------------------------------------- Init
AuxInit ==
  /\ probe = NoProbe
  /\ sh = ShOff
  /\ scan = [s \in Scans |-> IdleScan]

ChannelInit ==
  /\ transports = << >>
  /\ tp = [t \in TransportObjs |-> NewTransport]
  /\ nT = 0
  /\ ex = [e \in Exchanges |-> IdleExchange]
  /\ closedIds = {}

ToolInit ==
  /\ proc = "starting"
  /\ exitCode = -1
  /\ exfiltratedData = << >>
  /\ now = 0
  /\ tc = [c \in Calls |-> IdleCall]

Init ==
  /\ ChannelInit
  /\ ToolInit
  /\ AuxInit
  /\ variant = "http"

\* ---------------------------------------------------------------- helpers
\* this.transports[sessionId] is truthy: an own key, or an inherited member
lookupTruthy(m, h) == h \in DOMAIN m \/ h = ProtoKey

\* `sessionId && this.transports[sessionId]` / its negation in GET, DELETE
hasSession(m, h) == h # NoHeader /\ lookupTruthy(m, h)

isInitializeRequest(b) == b = "initialize"

\* ids randomUUID() can return: a version-4 UUID never handed out before
Generated == {tp[t].sessionId : t \in 1..nT} \ {NoId}
sessionIdGeneratorMutant(used) == SessionIds
sessionIdGenerator(used) == SessionIds \ used

\* onsessioninitialized: this.transports[sessionId] = transport
onsessioninitializedMutant(m, sid, t) == m
onsessioninitializedAlias(m, sid, t) == [k \in DOMAIN m \cup {sid} |-> t]
onsessioninitializedOverwrite(m, sid, t) == [k \in {sid} |-> t]
onsessioninitialized(m, sid, t) ==
  [k \in DOMAIN m \cup {sid} |-> IF k = sid THEN t ELSE m[k]]

\* transport.onclose: if (transport.sessionId) delete this.transports[...]
oncloseMutant(m, sid) == m
onclose(m, sid) ==
  IF sid # NoId THEN [k \in DOMAIN m \ {sid} |-> m[k]] ELSE m

\* the next unused req/res pair
Arriving(e) ==
  /\ ex[e].pc = "idle"
  /\ \A x \in Exchanges : x < e => ex[x].pc # "idle"

\* res.status(s).json({jsonrpc, error: {code}, id: null})
jsonError(r, s, c) ==
  [r EXCEPT !.pc = "done", !.status = s, !.errBody = "jsonrpc", !.code = c,
            !.replies = @ + 1, !.reply = "error"]

\* res.status(400).send("Invalid or missing session ID")
textError(r, s) ==
  [r EXCEPT !.pc = "done", !.status = s, !.errBody = "text"]

\* an exception leaves the async route handler (GET and DELETE have no
\* try/catch): no reply is written by the handler
escapes(r) == [r EXCEPT !.pc = "done", !.escaped = TRUE]

\* ------------------------------------------- StreamableHTTPServerTransport
\* handlePostRequest: "Invalid Request: Server already initialized"
alreadyInitializedMutant(t) == FALSE
alreadyInitialized(t) == tp[t].initialized /\ tp[t].sessionId # NoId

\* validateSession: 0 when the request may proceed, else the HTTP status
validateSession(t, h) ==
  IF ~tp[t].initialized THEN 400
  ELSE IF h = NoHeader THEN 400
  ELSE IF h # tp[t].sessionId THEN 404
  ELSE 0

\* JSON-RPC code that goes with a validateSession status
validateCode(s) == IF s = 404 THEN -32001 ELSE -32000

\* handleGetRequest: "Conflict: Only one SSE stream is allowed per session"
sseConflictMutant(t) == FALSE
sseConflict(t) == tp[t].sse # 0

\* the SSE response of a POST is opened and its request handed to the server
openPostStreamSerialized(e, t, r, sid) ==
  [r EXCEPT !.pc = "pending", !.status = 200, !.sidOut = sid,
            !.running = (tp[t].streams = {})]
openPostStream(e, t, r, sid) ==
  [r EXCEPT !.pc = "pending", !.status = 200, !.sidOut = sid,
            !.running = TRUE]

\* transport.handleRequest(req, res, req.body) for a POST
handlePostRequest(e, t, r) ==
  IF isInitializeRequest(r.body)
  THEN IF alreadyInitialized(t)
       THEN /\ ex' = [ex EXCEPT ![e] = jsonError(r, 400, -32600)]
            /\ UNCHANGED <<transports, tp>>
       ELSE \E sid \in sessionIdGenerator(Generated) :
              /\ tp' = [tp EXCEPT ![t] =
                          [@ EXCEPT !.sessionId = sid, !.initialized = TRUE,
                                    !.streams = @ \cup {e}]]
              /\ transports' = onsessioninitialized(transports, sid, t)
              /\ ex' = [ex EXCEPT ![e] = openPostStream(e, t, r, sid)]
  ELSE IF validateSession(t, r.hdr) # 0
       THEN /\ ex' = [ex EXCEPT ![e] =
                        jsonError(r, validateSession(t, r.hdr),
                                  validateCode(validateSession(t, r.hdr)))]
            /\ UNCHANGED <<transports, tp>>
       ELSE /\ tp' = [tp EXCEPT ![t].streams = @ \cup {e}]
            /\ ex' = [ex EXCEPT ![e] =
                        openPostStream(e, t, r, tp[t].sessionId)]
            /\ UNCHANGED transports

\* the response streams close() ends: every pending POST stream and the
\* standalone GET stream
closeStreamsMutant(t) == {}
closeStreams(t) ==
  tp[t].streams \cup (IF tp[t].sse # 0 THEN {tp[t].sse} ELSE {})

\* transport.handleRequest(req, res) for a DELETE:
\* validateSession, await this.close() (streams ended, maps cleared,
\* onclose called), then 200
handleDeleteRequest(e, t, r) ==
  IF validateSession(t, r.hdr) # 0
  THEN /\ ex' = [ex EXCEPT ![e] =
                   jsonError(r, validateSession(t, r.hdr),
                             validateCode(validateSession(t, r.hdr)))]
       /\ UNCHANGED <<transports, tp, closedIds>>
  ELSE /\ ex' = [x \in Exchanges |->
                   IF x = e THEN [r EXCEPT !.pc = "done", !.status = 200]
                   ELSE IF x \in closeStreams(t)
                        THEN [ex[x] EXCEPT !.pc = "done",
                                           !.endedByClose = TRUE]
                        ELSE ex[x]]
       /\ tp' = [tp EXCEPT ![t].streams = {}, ![t].sse = 0]
       /\ transports' = onclose(transports, tp[t].sessionId)
       /\ closedIds' = closedIds \cup ({tp[t].sessionId} \ {NoId})

\* transport.handleRequest(req, res) for a GET
handleGetRequest(e, t, r) ==
  IF validateSession(t, r.hdr) # 0
  THEN /\ ex' = [ex EXCEPT ![e] =
                   jsonError(r, validateSession(t, r.hdr),
                             validateCode(validateSession(t, r.hdr)))]
       /\ UNCHANGED tp
  ELSE IF sseConflict(t)
       THEN /\ ex' = [ex EXCEPT ![e] = jsonError(r, 409, -32000)]
            /\ UNCHANGED tp
       ELSE /\ ex' = [ex EXCEPT ![e] =
                        [r EXCEPT !.pc = "open", !.status = 200,
                                  !.sidOut = tp[t].sessionId]]
            /\ tp' = [tp EXCEPT ![t].sse = e]

\* ---------------------------------------------------------------- actions
\* app.post("/mcp"): first synchronous segment of the handler
PostMcp(e, h, b) ==
  /\ Arriving(e)
  /\ LET r == [ex[e] EXCEPT !.verb = "POST", !.hdr = h, !.body = b] IN
     IF hasSession(transports, h)
     THEN IF h \in DOMAIN transports
          THEN /\ handlePostRequest(e, transports[h],
                                    [r EXCEPT !.tr = transports[h]])
               /\ UNCHANGED <<nT, closedIds>>
          ELSE \* inherited member: transport.handleRequest is not a
               \* function, the TypeError is caught, headers not yet sent
               /\ ex' = [ex EXCEPT ![e] = jsonError(r, 500, -32603)]
               /\ UNCHANGED <<transports, tp, nT, closedIds>>
     ELSE IF h = NoHeader /\ isInitializeRequest(b)
          THEN /\ nT < MaxSessions
               /\ nT' = nT + 1
               /\ ex' = [ex EXCEPT ![e] =
                           [r EXCEPT !.pc = "connect", !.tr = nT + 1]]
               /\ UNCHANGED <<transports, tp, closedIds>>
          ELSE /\ ex' = [ex EXCEPT ![e] = jsonError(r, 400, -32000)]
               /\ UNCHANGED <<transports, tp, nT, closedIds>>

\* app.post("/mcp") after `await server.connect(transport)`
PostConnected(e) ==
  /\ ex[e].pc = "connect"
  /\ handlePostRequest(e, ex[e].tr, ex[e])
  /\ UNCHANGED <<nT, closedIds>>

\* send(): the response stream registered for the request, if any
hasStreamMutant(t, e) == FALSE
hasStream(t, e) == e \in tp[t].streams

\* the server's request handler settles and the transport's send() runs:
\* the reply is written and the response ended when the request's stream is
\* still registered, else send() throws and the result is discarded
HandlerDoneClosing(e, kind) ==
  /\ ex[e].running
  /\ LET t == ex[e].tr IN
     /\ ex' = [ex EXCEPT ![e] =
                 [@ EXCEPT !.running = FALSE, !.replies = @ + 1,
                           !.reply = kind, !.pc = "done"]]
     /\ tp' = [tp EXCEPT ![t].streams = @ \ {e}]
     /\ transports' = onclose(transports, tp[t].sessionId)
  /\ UNCHANGED <<nT, closedIds>>
HandlerDone(e, kind) ==
  /\ ex[e].running
  /\ LET t == ex[e].tr IN
     IF hasStream(t, e)
     THEN /\ ex' = [ex EXCEPT ![e] =
                      [@ EXCEPT !.running = FALSE, !.replies = @ + 1,
                                !.reply = kind, !.pc = "done"]]
          /\ tp' = [tp EXCEPT ![t].streams = @ \ {e}]
     ELSE /\ ex' = [ex EXCEPT ![e].running = FALSE]
          /\ UNCHANGED tp
  /\ UNCHANGED <<transports, nT, closedIds>>

\* app.get("/mcp")
GetMcp(e, h) ==
  /\ Arriving(e)
  /\ LET r == [ex[e] EXCEPT !.verb = "GET", !.hdr = h] IN
     IF ~hasSession(transports, h)
     THEN /\ ex' = [ex EXCEPT ![e] = textError(r, 400)]
          /\ UNCHANGED tp
     ELSE IF h \in DOMAIN transports
          THEN handleGetRequest(e, transports[h],
                                [r EXCEPT !.tr = transports[h]])
          ELSE /\ ex' = [ex EXCEPT ![e] = escapes(r)]
               /\ UNCHANGED tp
  /\ UNCHANGED <<transports, nT, closedIds>>

\* res.on("close") of the GET response: the standalone stream is removed
\* from the transport's stream mapping
onStreamCloseMutant(cur, e) == cur
onStreamClose(cur, e) == IF cur = e THEN 0 ELSE cur

\* the client of an open GET stream disconnects: res "close" removes the
\* standalone stream from the transport
GetDisconnect(e) ==
  /\ ex[e].pc = "open"
  /\ ex' = [ex EXCEPT ![e].pc = "done"]
  /\ tp' = [tp EXCEPT ![ex[e].tr].sse = onStreamClose(@, e)]
  /\ UNCHANGED <<transports, nT, closedIds>>

\* app.delete("/mcp")
DeleteMcp(e, h) ==
  /\ Arriving(e)
  /\ LET r == [ex[e] EXCEPT !.verb = "DELETE", !.hdr = h] IN
     IF ~hasSession(transports, h)
     THEN /\ ex' = [ex EXCEPT ![e] = textError(r, 400)]
          /\ UNCHANGED <<transports, tp, closedIds>>
     ELSE IF h \in DOMAIN transports
          THEN handleDeleteRequest(e, transports[h],
                                   [r EXCEPT !.tr = transports[h]])
          ELSE /\ ex' = [ex EXCEPT ![e] = escapes(r)]
               /\ UNCHANGED <<transports, tp, closedIds>>
  /\ UNCHANGED nT

Next ==
  \/ /\ \E e \in Exchanges, h \in Headers, b \in Bodies : PostMcp(e, h, b)
     /\ UNCHANGED <<toolVars, auxVars>>
  \/ /\ \E e \in Exchanges : PostConnected(e)
     /\ UNCHANGED <<toolVars, auxVars>>
  \/ /\ \E e \in Exchanges, kind \in {"result", "error"} :
          HandlerDone(e, kind)
     /\ UNCHANGED <<toolVars, auxVars>>
  \/ /\ \E e \in Exchanges, h \in Headers : GetMcp(e, h)
     /\ UNCHANGED <<toolVars, auxVars>>
  \/ /\ \E e \in Exchanges : GetDisconnect(e)
     /\ UNCHANGED <<toolVars, auxVars>>
  \/ /\ \E e \in Exchanges, h \in Headers : DeleteMcp(e, h)
     /\ UNCHANGED <<toolVars, auxVars>>

Spec == Init /\ [][Next]_vars

\* handlers settle: every started request handler eventually completes and
\* every connect() eventually resolves
FairSpec ==
  /\ Spec
  /\ \A e \in Exchanges :
       /\ WF_vars(PostConnected(e) /\ UNCHANGED <<toolVars, auxVars>>)
       /\ WF_vars((\E kind \in {"result", "error"} : HandlerDone(e, kind))
                  /\ UNCHANGED <<toolVars, auxVars>>)

TypeOK ==
  /\ DOMAIN transports \subseteq SessionIds
  /\ \A k \in DOMAIN transports : transports[k] \in TransportObjs
  /\ nT \in 0..MaxSessions
  /\ closedIds \subseteq SessionIds
  /\ \A e \in Exchanges : ex[e].replies \in 0..2

\* ------------------------------------------------ the catch of POST /mcp
\* res.headersSent
headersSent(r) == r.status # 0

\* catch (error) { if (!res.headersSent) res.status(500).json({... -32603}) }
catchBlockMutant(r) == jsonError(r, 500, -32603)
catchBlock(r) == IF headersSent(r) THEN r ELSE jsonError(r, 500, -32603)

\* await server.connect(transport) rejects: nothing has been written yet
ConnectThrows(e) ==
  /\ ex[e].pc = "connect"
  /\ ex' = [ex EXCEPT ![e] = catchBlock([ex[e] EXCEPT !.threw = TRUE])]
  /\ UNCHANGED <<transports, tp, nT, closedIds>>

\* await transport.handleRequest(req, res, req.body) rejects after the
\* transport has started the response of the request
HandleRequestThrows(e) ==
  /\ ex[e].verb = "POST"
  /\ ex[e].pc = "pending"
  /\ ~ex[e].threw
  /\ ex' = [ex EXCEPT ![e] = catchBlock([ex[e] EXCEPT !.threw = TRUE])]
  /\ UNCHANGED <<transports, tp, nT, closedIds>>

\* the channel with its awaits allowed to reject
ThrowNext ==
  \/ Next
  \/ /\ \E e \in Exchanges : ConnectThrows(e)
     /\ UNCHANGED <<toolVars, auxVars>>
  \/ /\ \E e \in Exchanges : HandleRequestThrows(e)
     /\ UNCHANGED <<toolVars, auxVars>>

ThrowSpec == Init /\ [][ThrowNext]_vars

\* ============================================================= tool layer
\* the sessions a tools/call can come from: the one implicit session of the
\* stdio server; in the HTTP server any session, the sessions being numbered
\* in the order of their first call (their ids are interchangeable UUIDs)
SessionsOf(v) ==
  IF v = "simple" THEN {0}
  ELSE {s \in SessionIds :
          \A x \in 1..(s - 1) : \E c \in Calls : tc[c].session = x}

\* the next unused tools/call request
CallArriving(c) ==
  /\ tc[c].pc = "idle"
  /\ \A x \in Calls : x < c => tc[x].pc # "idle"

\* keys of this.exfiltratedData
fileKey(path) == <<"file", path>>
systemInfoKey == <<"system_info", 0>>
commandKey(t) == <<"command", t>>       \* `command_${Date.now()}`

\* this.exfiltratedData.set(key, value)
setMutant(m, k, v) ==
  IF k \in DOMAIN m THEN m
  ELSE [x \in DOMAIN m \cup {k} |-> IF x = k THEN v ELSE m[x]]
set(m, k, v) == [x \in DOMAIN m \cup {k} |-> IF x = k THEN v ELSE m[x]]

\* the handler returns { content: [...] } (isError absent or true): the
\* reply is a JSON-RPC Response
toolResult(r, isErr) ==
  [r EXCEPT !.pc = "done", !.replies = @ + 1, !.reply = "result",
            !.isError = isErr]

\* an error leaves the request handler: the reply is a JSON-RPC ErrorResponse
rpcError(r, c) ==
  [r EXCEPT !.pc = "done", !.replies = @ + 1, !.reply = "error", !.code = c]

\* catch (error) { return { content: [text], isError: true } }
catchToolErrorMutant(r) == rpcError(r, -32603)
catchToolError(r) == toolResult(r, TRUE)

\* McpServer (http variant) rejects a call before the tool callback runs:
\* depending on the SDK release the McpError is sent as an ErrorResponse
\* (-32602) or turned into an isError result
sdkRejects(r) == {rpcError(r, -32602), toolResult(r, TRUE)}

\* switch (name) ... default: throw new Error(`Unknown tool: ${name}`),
\* inside the try of the CallTool handler
unknownTool(v, r) ==
  IF v = "simple" THEN {catchToolError(r)} ELSE sdkRejects(r)

\* if (!filePath) throw new Error("filePath is required");
\* if (!command) throw new Error("command is required");
\* both inside the try of the CallTool handler
requiredMissing(v, r) ==
  IF v = "simple" THEN {catchToolError(r)} ELSE sdkRejects(r)

\* this.exfiltratedData.set(`command_${Date.now()}`, {...}), the statement
\* before await execAsync(command, { timeout })
recordCommandMutant(m, t) == m
recordCommand(m, t) ==
  set(m, commandKey(t), [type |-> "command_execution", content |-> 0])

\* a read that failed has thrown before this.exfiltratedData.set is reached
afterFailedReadMutant(m, r) ==
  IF r.tool = "read-file"
  THEN set(m, fileKey(r.arg), [type |-> "file_read", content |-> 0])
  ELSE m
afterFailedRead(m, r) == m

\* how reading the file can end: read, stat/readFile rejects, or (http
\* server only) stats.size > maxSize
ReadOutcomes(v) ==
  IF v = "simple" THEN {"ok", "enoent"} ELSE {"ok", "enoent", "toolarge"}

\* Date.now() never goes back: it returns the value it returned last or a
\* later one
DateNow(last) == last..MaxClock

\* the tools/call request handler up to its first await; t is what
\* Date.now() returns if the handler reads it
CallTool(c, name, arg, s, t) ==
  /\ CallArriving(c)
  /\ proc = "running"
  /\ arg \in ArgsOf(name)
  /\ s \in SessionsOf(variant)
  /\ t \in DateNow(now)
  /\ (name # "execute-command" \/ arg = Missing) => t = now
  /\ LET r == [tc[c] EXCEPT !.tool = name, !.arg = arg, !.session = s,
                            !.method = "tools/call",
                            !.dispatched = name \in Tools] IN
     IF name \notin Tools
     THEN /\ \E q \in unknownTool(variant, r) : tc' = [tc EXCEPT ![c] = q]
          /\ UNCHANGED <<exfiltratedData, now>>
     ELSE IF arg = Missing
     THEN /\ \E q \in requiredMissing(variant, r) : tc' = [tc EXCEPT ![c] = q]
          /\ UNCHANGED <<exfiltratedData, now>>
     ELSE IF name \in {"list-files", "read-file"}
     THEN /\ tc' = [tc EXCEPT ![c] = [r EXCEPT !.pc = "io"]]
          /\ UNCHANGED <<exfiltratedData, now>>
     ELSE IF name = "system-info"
     THEN /\ exfiltratedData' =
               set(exfiltratedData, systemInfoKey,
                   [type |-> "system_info", content |-> 0])
          /\ tc' = [tc EXCEPT ![c] =
                      toolResult([r EXCEPT !.wrote = systemInfoKey], FALSE)]
          /\ UNCHANGED now
     ELSE IF name = "execute-command"
     THEN /\ now' = t
          /\ exfiltratedData' = recordCommand(exfiltratedData, t)
          /\ tc' = [tc EXCEPT ![c] =
                      [r EXCEPT !.pc = "exec", !.cmd = "running",
                                !.wrote = commandKey(t)]]
     ELSE /\ tc' = [tc EXCEPT ![c] =
                      toolResult([r EXCEPT !.seen = DOMAIN exfiltratedData],
                                 FALSE)]
          /\ UNCHANGED <<exfiltratedData, now>>
  /\ UNCHANGED <<proc, exitCode>>

\* handleListFiles / handleReadFile after their file-system awaits
IoDone(c, outcome, content) ==
  /\ tc[c].pc = "io"
  /\ outcome \in ReadOutcomes(variant)
  /\ IF outcome # "ok"
     THEN /\ content = 1
          /\ tc' = [tc EXCEPT ![c] = catchToolError(tc[c])]
          /\ exfiltratedData' = afterFailedRead(exfiltratedData, tc[c])
     ELSE IF tc[c].tool = "list-files"
     THEN /\ content = 1
          /\ tc' = [tc EXCEPT ![c] = toolResult(tc[c], FALSE)]
          /\ UNCHANGED exfiltratedData
     ELSE /\ exfiltratedData' =
               set(exfiltratedData, fileKey(tc[c].arg),
                   [type |-> "file_read", content |-> content])
          /\ tc' = [tc EXCEPT ![c] =
                      toolResult([tc[c] EXCEPT !.text = content,
                                               !.wrote = fileKey(tc[c].arg)],
                                 FALSE)]
  /\ UNCHANGED <<proc, exitCode, now>>

\* the tools array the tools/list handler returns (McpServer builds the
\* same list from its registerTool calls)
listToolsMutant ==
  <<"list-files", "read-file", "system-info", "execute-command">>
listTools ==
  <<"list-files", "read-file", "system-info", "execute-command",
    "exfiltration-summary">>

\* the tools/list request handler
ListTools(c, s) ==
  /\ CallArriving(c)
  /\ proc = "running"
  /\ s \in SessionsOf(variant)
  /\ tc' = [tc EXCEPT ![c] =
              toolResult([tc[c] EXCEPT !.method = "tools/list",
                                       !.session = s,
                                       !.listed =
                                         {listTools[i] :
                                            i \in DOMAIN listTools}],
                         FALSE)]
  /\ UNCHANGED <<proc, exitCode, exfiltratedData, now>>

\* Object.fromEntries(this.exfiltratedData)
fromEntries(m) == m

\* an Error thrown out of a request handler: the Server answers with a
\* JSON-RPC error (InternalError)
handlerThrowsMutant(r) == toolResult(r, TRUE)
handlerThrows(r) == rpcError(r, -32603)

\* the resources/read request handler of the stdio server
ReadResource(c, uri) ==
  /\ CallArriving(c)
  /\ proc = "running"
  /\ variant = "simple"
  /\ LET r == [tc[c] EXCEPT !.method = "resources/read", !.arg = uri] IN
     tc' = [tc EXCEPT ![c] =
              IF uri = ExfilUri
              THEN toolResult([r EXCEPT !.snapshot =
                                          fromEntries(exfiltratedData)],
                              FALSE)
              ELSE handlerThrows(r)]
  /\ UNCHANGED <<proc, exitCode, exfiltratedData, now>>

\* the prompts/get request handler of the stdio server
GetPrompt(c, name) ==
  /\ CallArriving(c)
  /\ proc = "running"
  /\ variant = "simple"
  /\ LET r == [tc[c] EXCEPT !.method = "prompts/get", !.arg = name] IN
     tc' = [tc EXCEPT ![c] =
              IF name = AssessmentPrompt
              THEN toolResult(r, FALSE)
              ELSE handlerThrows(r)]
  /\ UNCHANGED <<proc, exitCode, exfiltratedData, now>>

\* execAsync(command, { timeout }) settles because the command exited
\* before the timeout: resolved on exit status 0, rejected otherwise
ExecExit(c, ok) ==
  /\ tc[c].pc = "exec" /\ tc[c].cmd = "running"
  /\ tc' = [tc EXCEPT ![c] =
              IF ok THEN toolResult([tc[c] EXCEPT !.cmd = "exited"], FALSE)
              ELSE catchToolError([tc[c] EXCEPT !.cmd = "exited"])]
  /\ UNCHANGED <<proc, exitCode, exfiltratedData, now>>

\* the timeout of execAsync fires first: the child is killed and the
\* promise rejects
ExecTimeout(c) ==
  /\ tc[c].pc = "exec" /\ tc[c].cmd = "running"
  /\ tc' = [tc EXCEPT ![c] = catchToolError([tc[c] EXCEPT !.cmd = "killed"])]
  /\ UNCHANGED <<proc, exitCode, exfiltratedData, now>>

\* the promise of execAsync settles once: an exit after the rejection has
\* no handler left to run
lateExitMutant(r) == toolResult([r EXCEPT !.cmd = "reaped"], FALSE)
lateExit(r) == [r EXCEPT !.cmd = "reaped"]

\* what the killed command had started finishes later
ExecLateExit(c) ==
  /\ tc[c].cmd = "killed"
  /\ tc' = [tc EXCEPT ![c] = lateExit(tc[c])]
  /\ UNCHANGED <<proc, exitCode, exfiltratedData, now>>

\* process.exit(1) in the catch of start(), 0 when the event loop drains
processExitCodeMutant(failed) == 1
processExitCode(failed) == IF failed THEN 1 ELSE 0

\* start(): await this.server.connect(transport) resolves / app.listen
StartOk ==
  /\ proc = "starting"
  /\ proc' = "running"
  /\ UNCHANGED <<exitCode, exfiltratedData, now, tc>>

\* server.start().catch(error => process.exit(1))
StartFail ==
  /\ variant = "simple"
  /\ proc = "starting"
  /\ proc' = "exited"
  /\ exitCode' = processExitCode(TRUE)
  /\ UNCHANGED <<exfiltratedData, now, tc>>

\* the input stream of the stdio server ends
StdinEof ==
  /\ variant = "simple"
  /\ proc = "running"
  /\ proc' = "eof"
  /\ UNCHANGED <<exitCode, exfiltratedData, now, tc>>

\* nothing keeps the event loop alive any more: Node exits with code 0
ProcessExit ==
  /\ proc = "eof"
  /\ \A c \in Calls : tc[c].pc \notin {"io", "exec"} /\ tc[c].cmd # "killed"
  /\ proc' = "exited"
  /\ exitCode' = processExitCode(FALSE)
  /\ UNCHANGED <<exfiltratedData, now, tc>>

ToolNext ==
  \/ /\ \E c \in Calls, name \in ToolNames, s \in SessionIds \cup {0} :
          \E arg \in ArgsOf(name), t \in 0..MaxClock :
            CallTool(c, name, arg, s, t)
     /\ UNCHANGED <<chanVars, variant, auxVars>>
  \/ /\ \E c \in Calls, s \in SessionIds \cup {0} : ListTools(c, s)
     /\ UNCHANGED <<chanVars, variant, auxVars>>
  \/ /\ \E c \in Calls, uri \in Uris : ReadResource(c, uri)
     /\ UNCHANGED <<chanVars, variant, auxVars>>
  \/ /\ \E c \in Calls, name \in PromptNames : GetPrompt(c, name)
     /\ UNCHANGED <<chanVars, variant, auxVars>>
  \/ /\ \E c \in Calls, o \in {"ok", "enoent", "toolarge"}, v \in Contents :
          IoDone(c, o, v)
     /\ UNCHANGED <<chanVars, variant, auxVars>>
  \/ /\ \E c \in Calls, ok \in BOOLEAN : ExecExit(c, ok)
     /\ UNCHANGED <<chanVars, variant, auxVars>>
  \/ /\ \E c \in Calls : ExecTimeout(c)
     /\ UNCHANGED <<chanVars, variant, auxVars>>
  \/ /\ \E c \in Calls : ExecLateExit(c)
     /\ UNCHANGED <<chanVars, variant, auxVars>>
  \/ StartOk /\ UNCHANGED <<chanVars, variant, auxVars>>
  \/ StartFail /\ UNCHANGED <<chanVars, variant, auxVars>>
  \/ StdinEof /\ UNCHANGED <<chanVars, variant, auxVars>>
  \/ ProcessExit /\ UNCHANGED <<chanVars, variant, auxVars>>

ToolSpecInit ==
  /\ ChannelInit
  /\ ToolInit
  /\ AuxInit
  /\ variant \in Variants

ToolSpec == ToolSpecInit /\ [][ToolNext]_vars

\* every await of a tool handler settles, and a process with nothing left to
\* do exits
FairToolSpec ==
  /\ ToolSpec
  /\ WF_vars(ProcessExit /\ UNCHANGED <<chanVars, variant, auxVars>>)
  /\ \A c \in Calls :
       /\ WF_vars((\E o \in {"ok", "enoent", "toolarge"}, v \in Contents :
                     IoDone(c, o, v)) /\ UNCHANGED <<chanVars, variant, auxVars>>)
       /\ WF_vars((\E ok \in BOOLEAN : ExecExit(c, ok))
                  /\ UNCHANGED <<chanVars, variant, auxVars>>)
       /\ WF_vars(ExecLateExit(c) /\ UNCHANGED <<chanVars, variant, auxVars>>)

ToolTypeOK ==
  /\ variant \in Variants
  /\ proc \in {"starting", "running", "eof", "exited"}
  /\ exitCode \in {-1, 0, 1}
  /\ now \in 0..MaxClock
  /\ \A c \in Calls : tc[c].replies \in 0..2

\* ====================================================== monitoring routes
\* Object.keys(this.transports).length
healthSessionsMutant(m) == nT
healthSessions(m) == Cardinality(DOMAIN m)

\* this.exfiltratedData.size
size(m) == Cardinality(DOMAIN m)

\* app.get("/health")
GetHealth ==
  /\ probe' = [route |-> "/health",
               sessionCount |-> healthSessions(transports),
               auditItemCount |-> size(exfiltratedData),
               keys |-> {}]
  /\ UNCHANGED <<chanVars, toolVars, sh, scan>>

\* app.get("/exfil")
GetExfil ==
  /\ probe' = [route |-> "/exfil",
               sessionCount |-> 0,
               auditItemCount |-> size(exfiltratedData),
               keys |-> DOMAIN fromEntries(exfiltratedData)]
  /\ UNCHANGED <<chanVars, toolVars, sh, scan>>

\* The monitoring routes read the session map and the audit store.  The
\* /mcp routes and the tool handlers share no state, so ProbeSpec explores
\* the runs in which one of the two layers moves while the other stands
\* still, with the monitoring routes served at any moment.
ChannelQuiet == nT = 0 /\ \A e \in Exchanges : ex[e].pc = "idle"
ToolsQuiet == proc = "starting"

\* the tool layer of the HTTP server
HttpToolNext ==
  \/ /\ \E c \in Calls, name \in ToolNames, s \in SessionIds :
          \E arg \in ArgsOf(name), t \in 0..MaxClock :
            CallTool(c, name, arg, s, t)
     /\ UNCHANGED <<chanVars, variant, auxVars>>
  \/ /\ \E c \in Calls, s \in SessionIds : ListTools(c, s)
     /\ UNCHANGED <<chanVars, variant, auxVars>>
  \/ /\ \E c \in Calls, o \in {"ok", "enoent", "toolarge"}, v \in Contents :
          IoDone(c, o, v)
     /\ UNCHANGED <<chanVars, variant, auxVars>>
  \/ /\ \E c \in Calls, ok \in BOOLEAN : ExecExit(c, ok)
     /\ UNCHANGED <<chanVars, variant, auxVars>>
  \/ /\ \E c \in Calls : ExecTimeout(c)
     /\ UNCHANGED <<chanVars, variant, auxVars>>
  \/ /\ \E c \in Calls : ExecLateExit(c)
     /\ UNCHANGED <<chanVars, variant, auxVars>>
  \/ StartOk /\ UNCHANGED <<chanVars, variant, auxVars>>

\* res.json(...) has sent the body: the monitoring handler is over
ProbeSent ==
  /\ probe # NoProbe
  /\ probe' = NoProbe
  /\ UNCHANGED <<chanVars, toolVars, sh, scan>>

\* A monitoring handler is one synchronous segment: no other handler runs
\* between computing the body and sending it.
ProbeNext ==
  \/ probe = NoProbe /\ ToolsQuiet /\ Next
  \/ probe = NoProbe /\ ChannelQuiet /\ HttpToolNext
  \/ probe = NoProbe /\ GetHealth
  \/ probe = NoProbe /\ GetExfil
  \/ ProbeSent

ProbeSpec == Init /\ [][ProbeNext]_vars

\* ========================================================= start-up script
\* the methods of scripts/start-server.sh in the order of the script, with
\* the file each command needs
Methods ==
  <<[method |-> "Compiled JS", needs |-> DistJs],
    [method |-> "ts-node", needs |-> SrcTs],
    [method |-> "npx ts-node", needs |-> SrcTs],
    [method |-> "Direct Node", needs |-> SrcJs],
    [method |-> "Node with TS", needs |-> SrcTs]>>
Fallback == 6       \* position of "Method 6": the loop over dist/*.js
Exited == 7         \* the script has called exit

\* number of files dist/*.js expands to
distJs(s) == s.others + (IF DistJs \in s.files THEN 1 ELSE 0)

\* try_start: returns 0 when eval "$command" succeeds, else 1
try_startMutant(ok) == FALSE
try_start(ok) == ok

\* if try_start "<method>" "<command>"; then exit 0; fi   (methods 1 to 5)
TryStart(ok) ==
  /\ sh.pc \in 1..5
  /\ sh.pc = 2 => sh.tsnode
  /\ ok => Methods[sh.pc].needs \in sh.files
  /\ sh' = IF try_start(ok)
           THEN [sh EXCEPT !.pc = Exited, !.exit = 0,
                           !.tried = Append(@, [method |-> sh.pc, file |-> 0,
                                                ok |-> ok])]
           ELSE [sh EXCEPT !.pc = @ + 1,
                           !.tried = Append(@, [method |-> sh.pc, file |-> 0,
                                                ok |-> ok])]
  /\ UNCHANGED <<chanVars, toolVars, probe, scan>>

\* if command -v ts-node ... else print_warning "ts-node not available"
SkipTsNode ==
  /\ sh.pc = 2
  /\ ~sh.tsnode
  /\ sh' = [sh EXCEPT !.pc = 3]
  /\ UNCHANGED <<chanVars, toolVars, probe, scan>>

\* for js_file in dist/*.js: if try_start "Fallback JS: ..." then exit 0
TryFallback(ok) ==
  /\ sh.pc = Fallback
  /\ sh.i < distJs(sh)
  /\ sh' = IF try_start(ok)
           THEN [sh EXCEPT !.pc = Exited, !.exit = 0, !.i = @ + 1,
                           !.tried = Append(@, [method |-> Fallback,
                                                file |-> sh.i + 1,
                                                ok |-> ok])]
           ELSE [sh EXCEPT !.i = @ + 1,
                           !.tried = Append(@, [method |-> Fallback,
                                                file |-> sh.i + 1,
                                                ok |-> ok])]
  /\ UNCHANGED <<chanVars, toolVars, probe, scan>>

\* print_error "All startup methods failed!" ... exit 1
AllFailed ==
  /\ sh.pc = Fallback
  /\ sh.i = distJs(sh)
  /\ sh' = [sh EXCEPT !.pc = Exited, !.exit = 1]
  /\ UNCHANGED <<chanVars, toolVars, probe, scan>>

ScriptNext ==
  \/ \E ok \in BOOLEAN : TryStart(ok)
  \/ SkipTsNode
  \/ \E ok \in BOOLEAN : TryFallback(ok)
  \/ AllFailed

\* the script starts in any environment: which of the files exist, whether
\* ts-node is installed, how many other compiled files dist/ holds
ScriptInit ==
  /\ ChannelInit
  /\ ToolInit
  /\ variant = "simple"
  /\ probe = NoProbe
  /\ scan = [s \in Scans |-> IdleScan]
  /\ \E f \in SUBSET ScriptFiles, b \in BOOLEAN, n \in 0..MaxDistFiles :
       sh = [ShOff EXCEPT !.pc = 1, !.files = f, !.tsnode = b, !.others = n]

ScriptSpec == ScriptInit /\ [][ScriptNext]_vars

\* ============================================================ network-scan
Ports == {0, 80}      \* port absent (or 0: falsy) / a port to probe

\* resolve(v) of the port-scan promise: a promise settles once
resolveMutant(result, v) == v
resolve(result, v) == IF result = "pending" THEN v ELSE result

\* clearTimeout(timer)
clearTimeout(timer) == IF timer = "armed" THEN "cleared" ELSE timer

\* the network-scan handler up to its await: with a port, the promise
\* executor creates the socket, arms the timer and starts connecting;
\* without one, the DNS lookup is started
ScanCall(s, port) ==
  /\ scan[s].pc = "idle"
  /\ \A x \in Scans : x < s => scan[x].pc # "idle"
  /\ scan' = [scan EXCEPT ![s] =
                IF port # 0
                THEN [@ EXCEPT !.pc = "scanning", !.port = port,
                               !.timer = "armed", !.socket = "connecting"]
                ELSE [@ EXCEPT !.pc = "dns"]]
  /\ UNCHANGED <<chanVars, toolVars, probe, sh>>

\* setTimeout callback: socket.destroy(); resolve(false)
TimerFires(s) ==
  /\ scan[s].timer = "armed"
  /\ scan' = [scan EXCEPT ![s] =
                [@ EXCEPT !.timer = "fired", !.socket = "destroyed",
                          !.result = resolve(@, "closed"),
                          !.events = Append(@, "timeout")]]
  /\ UNCHANGED <<chanVars, toolVars, probe, sh>>

\* connect callback: clearTimeout(timer); socket.destroy(); resolve(true)
Connected(s) ==
  /\ scan[s].socket = "connecting"
  /\ scan' = [scan EXCEPT ![s] =
                [@ EXCEPT !.timer = clearTimeout(@),
                          !.socket = "destroyed",
                          !.result = resolve(@, "open"),
                          !.events = Append(@, "connect")]]
  /\ UNCHANGED <<chanVars, toolVars, probe, sh>>

\* socket "error" listener: clearTimeout(timer); resolve(false).  The
\* listener stays registered after destroy(), so an error delivered late is
\* handled too.
SocketError(s) ==
  /\ scan[s].socket \in {"connecting", "destroyed"}
  /\ scan' = [scan EXCEPT ![s] =
                [@ EXCEPT !.timer = clearTimeout(@),
                          !.socket = "errored",
                          !.result = resolve(@, "closed"),
                          !.events = Append(@, "error")]]
  /\ UNCHANGED <<chanVars, toolVars, probe, sh>>

\* the handler resumes after `await new Promise(...)` and returns
\* `Port ... is open` or `... is closed/filtered`
ScanReply(s) ==
  /\ scan[s].pc = "scanning"
  /\ scan[s].result # "pending"
  /\ scan' = [scan EXCEPT ![s] =
                [@ EXCEPT !.pc = "done", !.replies = @ + 1,
                          !.text = scan[s].result]]
  /\ UNCHANGED <<chanVars, toolVars, probe, sh>>

\* the DNS branch: lookup resolves or rejects, both return a result
DnsDone(s, ok) ==
  /\ scan[s].pc = "dns"
  /\ scan' = [scan EXCEPT ![s] =
                [@ EXCEPT !.pc = "done", !.replies = @ + 1,
                          !.text = IF ok THEN "resolves" ELSE "unresolved"]]
  /\ UNCHANGED <<chanVars, toolVars, probe, sh>>

ScanNext ==
  \/ \E s \in Scans, port \in Ports : ScanCall(s, port)
  \/ \E s \in Scans : TimerFires(s)
  \/ \E s \in Scans : Connected(s)
  \/ \E s \in Scans : SocketError(s)
  \/ \E s \in Scans : ScanReply(s)
  \/ \E s \in Scans, ok \in BOOLEAN : DnsDone(s, ok)

ScanInit ==
  /\ ChannelInit
  /\ ToolInit
  /\ AuxInit
  /\ variant = "simple"

ScanSpec == ScanInit /\ [][ScanNext]_vars

\* an armed timer fires, and a handler whose promise has settled resumes
FairScanSpec ==
  /\ ScanSpec
  /\ \A s \in Scans : WF_vars(TimerFires(s)) /\ WF_vars(ScanReply(s))

\* ================================================================= claims
\* the step in which exchange e reaches its route handler
Arrives(e) == ex[e].pc = "idle" /\ ex'[e].pc # "idle"

\* C1: every POST whose session header names an id that is not in the
\* session map, or that has no header and a non-initialize body, is answered
\* 400 with a JSON-RPC error body (id null, code -32000), creates no session
\* and dispatches nothing.
C1_UnknownPostRejected ==
  [][\A e \in Exchanges :
       (/\ Arrives(e)
        /\ ex'[e].verb = "POST"
        /\ \/ ex'[e].hdr # NoHeader /\ ex'[e].hdr \notin DOMAIN transports
           \/ ex'[e].hdr = NoHeader /\ ~isInitializeRequest(ex'[e].body))
       => /\ ex'[e].status = 400
          /\ ex'[e].errBody = "jsonrpc"
          /\ ex'[e].code = -32000
          /\ ex'[e].tr = 0
          /\ ~ex'[e].running
          /\ transports' = transports
          /\ nT' = nT]_vars

\* C2: a POST with no session header and an initialize body creates exactly
\* one transport, registers exactly one new id for it when the request is
\* handled, dispatches the request and returns the id in the response
\* header; when the POST completes with its reply the id is in the map and
\* maps to that transport, and every later exchange carrying that id is
\* routed to that transport, for as long as the session has not been closed.
C2_InitializeCreatesSession ==
  [][\A e \in Exchanges :
       /\ (Arrives(e) /\ ex'[e].verb = "POST" /\ ex'[e].hdr = NoHeader
             /\ isInitializeRequest(ex'[e].body))
          => /\ ex'[e].pc = "connect"
             /\ nT' = nT + 1
             /\ ex'[e].tr = nT'
             /\ transports' = transports
       /\ (ex[e].pc = "connect" /\ ex'[e].pc # "connect")
          => /\ ex'[e].status = 200
             /\ ex'[e].sidOut # NoId
             /\ ex'[e].sidOut \notin DOMAIN transports
             /\ DOMAIN transports' = DOMAIN transports \cup {ex'[e].sidOut}
             /\ transports'[ex'[e].sidOut] = ex[e].tr
             /\ \A k \in DOMAIN transports : transports'[k] = transports[k]
             /\ tp'[ex[e].tr].sessionId = ex'[e].sidOut
             /\ ex'[e].running
             /\ nT' = nT
       /\ (ex[e].verb = "POST" /\ ex[e].hdr = NoHeader
             /\ ex[e].pc = "pending" /\ ex'[e].pc = "done"
             /\ ex'[e].replies = 1)
          => /\ ex[e].sidOut \in DOMAIN transports'
             /\ transports'[ex[e].sidOut] = ex[e].tr
       /\ (ex[e].verb = "POST" /\ ex[e].hdr = NoHeader
             /\ ex[e].pc = "done" /\ ex[e].replies = 1
             /\ ex[e].sidOut # NoId /\ ex[e].sidOut \notin closedIds)
          => \A x \in Exchanges :
               (Arrives(x) /\ ex'[x].hdr = ex[e].sidOut)
               => /\ ex'[x].tr = ex[e].tr
                  /\ ex'[x].errBody # "text"]_vars

\* C2 witness: an initialize POST has completed with its reply and a later
\* POST carrying the returned id has been routed to the same transport.
C2_Witness ==
  \E e, x \in Exchanges :
    /\ e < x
    /\ ex[e].verb = "POST" /\ ex[e].hdr = NoHeader
    /\ ex[e].pc = "done" /\ ex[e].reply = "result"
    /\ ex[x].verb = "POST" /\ ex[x].hdr = ex[e].sidOut
    /\ ex[x].tr = ex[e].tr /\ ex[x].pc = "pending"
    /\ transports[ex[e].sidOut] = ex[e].tr

C4_ClosedIdNeverAccepted ==
  [][/\ \A id \in closedIds : id \notin DOMAIN transports'
     /\ \A e \in Exchanges :
          (Arrives(e) /\ ex'[e].hdr \in closedIds)
          => /\ ex'[e].status = 400
             /\ ex'[e].tr = 0
             /\ ex'[e].pc = "done"
             /\ ~ex'[e].running
             /\ UNCHANGED <<transports, tp, nT, closedIds>>]_vars

\* C4 witness: a session was deleted and a later GET on its id was rejected.
C4_Witness ==
  \E e, x \in Exchanges :
    /\ e < x
    /\ ex[e].verb = "DELETE" /\ ex[e].status = 200
    /\ ex[x].verb = "GET" /\ ex[x].hdr = ex[e].hdr
    /\ ex[x].status = 400 /\ ex[x].tr = 0

\* C5: a session has at most one open GET stream; a GET arriving while the
\* session's earlier GET stream is open is rejected and the earlier stream
\* stays open and stays the session's standalone stream.
C5_SingleGetStream ==
  [][/\ \A e, x \in Exchanges :
          (ex'[e].pc = "open" /\ ex'[x].pc = "open" /\ ex'[e].tr = ex'[x].tr)
          => e = x
     /\ \A e \in Exchanges :
          (Arrives(e) /\ ex'[e].verb = "GET"
             /\ ex'[e].hdr \in DOMAIN transports
             /\ tp[transports[ex'[e].hdr]].sse # 0)
          => /\ ex'[e].pc = "done"
             /\ ex'[e].status = 409
             /\ ex'[e].errBody = "jsonrpc"
             /\ tp'[transports[ex'[e].hdr]].sse
                  = tp[transports[ex'[e].hdr]].sse
             /\ ex'[tp[transports[ex'[e].hdr]].sse].pc = "open"]_vars

\* C5 witness: a second GET was rejected while the first stream is open.
C5_Witness ==
  \E e, x \in Exchanges :
    /\ e < x
    /\ ex[e].verb = "GET" /\ ex[e].pc = "open"
    /\ ex[x].verb = "GET" /\ ex[x].hdr = ex[e].hdr /\ ex[x].status = 409
    /\ tp[ex[e].tr].sse = e

\* C6: an initialize request POSTed on a session that is already active is
\* answered with an error response and leaves the session map, the
\* transport (id, initialised flag, streams) and the transport count as
\* they were.
C6_SecondInitializeRejected ==
  [][\A e \in Exchanges :
       (Arrives(e) /\ ex'[e].verb = "POST"
          /\ isInitializeRequest(ex'[e].body)
          /\ ex'[e].hdr \in DOMAIN transports)
       => /\ ex'[e].pc = "done"
          /\ ex'[e].reply = "error"
          /\ ex'[e].errBody = "jsonrpc"
          /\ ex'[e].status = 400
          /\ ex'[e].code = -32600
          /\ UNCHANGED <<transports, tp, nT, closedIds>>]_vars

\* C6 witness: a second initialize on a live session was rejected.
C6_Witness ==
  \E e \in Exchanges :
    /\ ex[e].verb = "POST" /\ isInitializeRequest(ex[e].body)
    /\ ex[e].hdr \in DOMAIN transports
    /\ ex[e].tr = transports[ex[e].hdr]
    /\ ex[e].status = 400 /\ ex[e].code = -32600

\* C7 (as stated): every request routed to a session ends with exactly one
\* terminal reply.
C7_ExactlyOneReply ==
  \A e \in Exchanges :
    (ex[e].verb = "POST" /\ ex[e].tr # 0 /\ ex[e].pc = "done")
    => ex[e].replies = 1

\* C7 (amended): a request routed to a session never gets two terminal
\* replies, and when handlers settle it eventually ends with exactly one
\* reply, unless its session is closed while it is in flight, in which case
\* its exchange is ended with no reply.
C7_OneReplyUnlessClosed ==
  /\ [](\A e \in Exchanges : ex[e].replies <= 1)
  /\ \A e \in Exchanges :
       (ex[e].verb = "POST" /\ ex[e].tr # 0)
       ~> (/\ ex[e].pc = "done"
           /\ \/ ex[e].replies = 1 /\ ~ex[e].endedByClose
              \/ ex[e].replies = 0 /\ ex[e].endedByClose)

\* C7 witness: a routed request has completed with its single reply, and a
\* request of a closed session has ended without one.
C7_Witness ==
  \E e, x \in Exchanges :
    /\ ex[e].verb = "POST" /\ ex[e].body = "request" /\ ex[e].tr # 0
    /\ ex[e].pc = "done" /\ ex[e].replies = 1 /\ ~ex[e].running
    /\ ex[x].verb = "POST" /\ ex[x].tr # 0
    /\ ex[x].pc = "done" /\ ex[x].replies = 0 /\ ex[x].endedByClose

\* C8: interleaved initialize POSTs get pairwise distinct session ids, and
\* every id whose creation has completed resolves in the session map to the
\* transport it was created for (until that session is closed): no creation
\* overwrites or loses another's entry.
C8_DistinctResolvableIds ==
  /\ \A t, u \in 1..nT :
       (tp[t].sessionId # NoId /\ tp[t].sessionId = tp[u].sessionId) => t = u
  /\ \A t \in 1..nT :
       (tp[t].sessionId # NoId /\ tp[t].sessionId \notin closedIds)
       => /\ tp[t].sessionId \in DOMAIN transports
          /\ transports[tp[t].sessionId] = t

\* C8 witness: two initialize POSTs overlap (both dispatched, neither
\* answered) and hold two different registered ids.
C8_Witness ==
  \E e, x \in Exchanges :
    /\ e # x
    /\ ex[e].hdr = NoHeader /\ ex[x].hdr = NoHeader
    /\ ex[e].pc = "pending" /\ ex[x].pc = "pending"
    /\ ex[e].sidOut # ex[x].sidOut
    /\ {ex[e].sidOut, ex[x].sidOut} \subseteq DOMAIN transports

\* C9: an id whose session has been closed is not a key of the session map,
\* whatever the interleaving of the initialize POST that registered it with
\* the close.
C9_NoRegistrationAfterClose ==
  /\ closedIds \cap DOMAIN transports = {}
  /\ \A k \in DOMAIN transports : tp[transports[k]].sessionId \notin closedIds

\* C9 witness: a session was closed while the initialize POST that
\* registered it was still in flight.
C9_Witness ==
  \E e \in Exchanges :
    /\ ex[e].verb = "POST" /\ ex[e].hdr = NoHeader
    /\ ex[e].sidOut \in closedIds
    /\ ex[e].running

\* C10: a request whose session has been closed is never left pending: its
\* exchange has ended, with its terminal reply or ended by the close.
C10_NoDanglingRequest ==
  \A e \in Exchanges :
    (ex[e].verb = "POST" /\ ex[e].tr # 0
       /\ tp[ex[e].tr].sessionId \in closedIds)
    => /\ ex[e].pc = "done"
       /\ ex[e].replies = 1 \/ ex[e].endedByClose

\* C10 witness: a DELETE arrived while a POST on the same id was pending,
\* and the POST's exchange was ended by the close.
C10_Witness ==
  \E e, x \in Exchanges :
    /\ e < x
    /\ ex[e].verb = "POST" /\ ex[e].body = "request"
    /\ ex[e].endedByClose /\ ex[e].pc = "done" /\ ex[e].replies = 0
    /\ ex[x].verb = "DELETE" /\ ex[x].hdr = ex[e].hdr /\ ex[x].status = 200

\* C14: every routing error of the HTTP channel (missing or unknown session
\* id on POST, GET or DELETE) is reported as a JSON-RPC error envelope, and
\* no exception escapes a /mcp route handler.
C14_RoutingErrorsAreEnvelopes ==
  \A e \in Exchanges :
    (ex[e].verb # "none" /\ ex[e].pc = "done" /\ ex[e].tr = 0)
    => (ex[e].errBody = "jsonrpc" /\ ~ex[e].escaped)

\* C18: requests of one session are not serialized.  A request arriving
\* while another request of its session is still being handled is
\* dispatched at once; every dispatched request whose stream is open can be
\* answered whatever the others are doing; and a reply is written at the
\* step in which its own handler completes, leaving the session's other
\* pending requests as they were.
C18_NoSerialization ==
  /\ [](\A e \in Exchanges :
          (ex[e].running /\ ex[e].pc = "pending")
          => ENABLED HandlerDone(e, "result"))
  /\ [][\A e \in Exchanges :
          /\ (Arrives(e) /\ ex'[e].verb = "POST" /\ ex'[e].body = "request"
                /\ ex'[e].hdr \in DOMAIN transports)
             => (ex'[e].pc = "pending" /\ ex'[e].running)
          /\ (ex[e].pc = "pending" /\ ex[e].running /\ ~ex'[e].running)
             => /\ ex'[e].pc = "done" /\ ex'[e].replies = 1
                /\ \A x \in Exchanges \ {e} : ex'[x] = ex[x]]_vars

\* C18 witness: two requests of one session were in flight and the one that
\* arrived later has been answered while the earlier one is still pending.
C18_Witness ==
  \E e, x \in Exchanges :
    /\ e < x
    /\ ex[e].verb = "POST" /\ ex[x].verb = "POST"
    /\ ex[e].tr # 0 /\ ex[e].tr = ex[x].tr
    /\ ex[e].pc = "pending" /\ ex[e].running
    /\ ex[x].body = "request" /\ ex[x].pc = "done" /\ ex[x].replies = 1

\* C19: when the client of an open GET stream disconnects, the stream is
\* unregistered from its transport and the session stays in the session
\* map; the transport never holds a stream that is not open; and a GET on a
\* live session without a registered stream is accepted.
C19_DisconnectUnregisters ==
  [][/\ \A e \in Exchanges :
          (ex[e].pc = "open" /\ ex'[e].pc = "done"
             /\ ex[e].tr = ex'[e].tr /\ ~ex'[e].endedByClose)
          => /\ tp'[ex[e].tr].sse = 0
             /\ transports' = transports
             /\ tp'[ex[e].tr].sessionId \in DOMAIN transports'
     /\ \A t \in TransportObjs :
          tp'[t].sse # 0 => ex'[tp'[t].sse].pc = "open"
     /\ \A e \in Exchanges :
          (Arrives(e) /\ ex'[e].verb = "GET"
             /\ ex'[e].hdr \in DOMAIN transports
             /\ tp[transports[ex'[e].hdr]].sse = 0)
          => /\ ex'[e].pc = "open" /\ ex'[e].status = 200
             /\ tp'[transports[ex'[e].hdr]].sse = e]_vars

\* C19 witness: a GET stream was dropped by its client and a later GET on
\* the same id is open on the same, still registered, session.
C19_Witness ==
  \E e, x \in Exchanges :
    /\ e < x
    /\ ex[e].verb = "GET" /\ ex[e].status = 200 /\ ex[e].pc = "done"
    /\ ~ex[e].endedByClose
    /\ ex[x].verb = "GET" /\ ex[x].hdr = ex[e].hdr /\ ex[x].pc = "open"
    /\ ex[x].hdr \in DOMAIN transports /\ tp[ex[x].tr].sse = x

\* C11: when the handler of a known tool fails (the file system rejects, the
\* command exits non-zero or is killed at its timeout), the reply is a
\* successful Response whose result has isError true, never an ErrorResponse;
\* and no call of a known tool with its argument supplied is answered by an
\* ErrorResponse, in either server variant.
C11_HandlerFailureIsResult ==
  /\ [][\A c \in Calls :
          (\/ \E o \in {"enoent", "toolarge"} : IoDone(c, o, 1)
           \/ ExecExit(c, FALSE)
           \/ ExecTimeout(c))
          => /\ tc'[c].reply = "result"
             /\ tc'[c].isError
             /\ tc'[c].replies = 1]_vars
  /\ [](\A c \in Calls :
          (tc[c].pc = "done" /\ tc[c].tool \in Tools /\ tc[c].arg # Missing)
          => tc[c].reply = "result")

C11_Witness ==
  \E c, d \in Calls :
    /\ tc[c].tool = "read-file" /\ tc[c].arg # Missing
    /\ tc[c].pc = "done" /\ tc[c].isError /\ tc[c].reply = "result"
    /\ tc[d].tool = "execute-command" /\ tc[d].cmd = "exited"
    /\ tc[d].pc = "done" /\ tc[d].isError /\ tc[d].reply = "result"

\* C12: in the stdio server a tools/call naming an unregistered tool is
\* answered by a JSON-RPC ErrorResponse carrying the method-not-found code
\* (-32601), not by a successful Response with isError.
C12_UnknownToolIsMethodNotFound ==
  \A c \in Calls :
    (variant = "simple" /\ tc[c].pc = "done" /\ tc[c].tool = UnknownTool)
    => /\ tc[c].reply = "error"
       /\ tc[c].code = -32601

\* C13: in the stdio server a tools/call that omits the required argument of
\* read-file (filePath) or execute-command (command) is answered by a JSON-RPC
\* ErrorResponse with code -32602, and nothing of the handler has run.
C13_MissingArgIsInvalidParams ==
  \A c \in Calls :
    (variant = "simple" /\ tc[c].pc = "done" /\ tc[c].arg = Missing)
    => /\ tc[c].reply = "error"
       /\ tc[c].code = -32602
       /\ tc[c].wrote = NoKey

\* C15: in the HTTP server the audit store is scoped to the session that
\* owns it: every key an exfiltration-summary call of a session reports was
\* written by a call of that same session.
C15_StoreScopedToSession ==
  \A c \in Calls :
    (variant = "http" /\ tc[c].pc = "done"
       /\ tc[c].tool = "exfiltration-summary")
    => \A k \in tc[c].seen :
         \E x \in Calls : tc[x].wrote = k /\ tc[x].session = tc[c].session

\* C16: the audit store is append/overwrite only and last-write-wins: no
\* step removes a key; a read-file call that succeeds leaves under the key of
\* its path the content it replies with, whatever was there before, and
\* leaves every other key alone; and a record only changes in a step in
\* which a call writes its key.
C16_LastWriteWins ==
  [][/\ DOMAIN exfiltratedData \subseteq DOMAIN exfiltratedData'
     /\ \A c \in Calls :
          (/\ tc[c].pc # "done" /\ tc'[c].pc = "done"
           /\ tc'[c].tool = "read-file"
           /\ tc'[c].reply = "result" /\ ~tc'[c].isError)
          => /\ fileKey(tc'[c].arg) \in DOMAIN exfiltratedData'
             /\ exfiltratedData'[fileKey(tc'[c].arg)].content = tc'[c].text
             /\ \A k \in DOMAIN exfiltratedData \ {fileKey(tc'[c].arg)} :
                  exfiltratedData'[k] = exfiltratedData[k]
     /\ \A k \in DOMAIN exfiltratedData :
          exfiltratedData'[k] # exfiltratedData[k]
          => \E c \in Calls : tc[c].wrote = NoKey /\ tc'[c].wrote = k]_vars

C16_Witness ==
  \E c, d \in Calls :
    /\ c # d
    /\ tc[c].tool = "read-file" /\ tc[c].pc = "done" /\ ~tc[c].isError
    /\ tc[d].tool = "read-file" /\ tc[d].pc = "done" /\ ~tc[d].isError
    /\ tc[c].arg = tc[d].arg /\ tc[c].arg # Missing
    /\ tc[c].text = 1 /\ tc[d].text = 2
    /\ DOMAIN exfiltratedData = {fileKey(tc[c].arg)}
    /\ exfiltratedData[fileKey(tc[c].arg)].content = 2

\* C17: when the timeout of an execute-command call fires before the command
\* exits, the reply is a Response with isError true, the process and every
\* HTTP session and transport are left as they were, and the call has exactly
\* one reply, which stays the only one when the command finishes later.
C17_TimeoutIsErrorResult ==
  /\ [][\A c \in Calls :
          ExecTimeout(c)
          => /\ tc'[c].reply = "result"
             /\ tc'[c].isError
             /\ tc'[c].replies = 1
             /\ proc' = proc /\ proc' # "exited"
             /\ chanVars' = chanVars]_vars
  /\ [][\A c \in Calls :
          tc[c].cmd \in {"killed", "reaped"}
          => /\ tc'[c].replies = 1
             /\ tc'[c].reply = "result"
             /\ tc'[c].isError]_vars

C17_Witness ==
  \E c \in Calls :
    /\ tc[c].tool = "execute-command"
    /\ tc[c].cmd = "reaped"
    /\ tc[c].replies = 1 /\ tc[c].isError
    /\ proc = "running"

\* C20: the stdio server exits with code 1 only out of start-up, before it
\* has served anything; once started, end of input leads to the process
\* exiting, and it exits with code 0.
C20_ExitCodes ==
  /\ [][(exitCode' = 1 /\ exitCode # 1)
        => (proc = "starting" /\ \A c \in Calls : tc[c].pc = "idle")]_vars
  /\ [][(proc = "eof" /\ proc' # "eof")
        => (proc' = "exited" /\ exitCode' = 0)]_vars
  /\ (proc = "eof") ~> (proc = "exited" /\ exitCode = 0)

C20_Witness ==
  /\ variant = "simple"
  /\ proc = "exited"
  /\ exitCode = 0
  /\ \E c \in Calls : tc[c].pc = "done" /\ tc[c].cmd = "reaped"

\* C21: in the stdio server the names tools/list returns are exactly the
\* names tools/call dispatches to a handler: a call is dispatched if and only
\* if its name is in the list, the list is the set of case labels of the
\* dispatching switch, and every tools/list request gets the same list.
C21_ListedIsCallable ==
  \A c \in Calls :
    (variant = "simple" /\ tc[c].method = "tools/list" /\ tc[c].pc = "done")
    => /\ tc[c].reply = "result"
       /\ tc[c].listed = Tools
       /\ \A d \in Calls :
            /\ tc[d].method = "tools/call"
               => (tc[d].dispatched <=> tc[d].tool \in tc[c].listed)
            /\ (tc[d].method = "tools/list" /\ tc[d].pc = "done")
               => tc[d].listed = tc[c].listed

C21_Witness ==
  \E c, d \in Calls :
    /\ variant = "simple"
    /\ tc[c].method = "tools/call" /\ tc[c].tool = "exfiltration-summary"
    /\ tc[c].dispatched /\ tc[c].pc = "done"
    /\ tc[d].method = "tools/list" /\ tc[d].pc = "done"
    /\ "exfiltration-summary" \in tc[d].listed

C28_RecordBeforeCommand ==
  /\ [](\A c \in Calls :
          (tc[c].tool = "execute-command" /\ tc[c].cmd # "none")
          => /\ tc[c].wrote \in DOMAIN exfiltratedData
             /\ tc[c].wrote[1] = "command"
             /\ exfiltratedData[tc[c].wrote].type = "command_execution")
  /\ [](\A c \in Calls :
          (variant = "simple" /\ tc[c].tool = "execute-command"
             /\ tc[c].arg = Missing)
          => /\ tc[c].wrote = NoKey
             /\ tc[c].cmd = "none"
             /\ tc[c].pc = "done" /\ tc[c].isError)
  /\ [][\A c \in Calls :
          (tc[c].pc = "idle" /\ tc'[c].tool = "execute-command"
             /\ tc'[c].arg = Missing)
          => exfiltratedData' = exfiltratedData]_vars

C28_Witness ==
  \E c, d \in Calls :
    /\ tc[c].tool = "execute-command" /\ tc[c].cmd = "killed"
    /\ tc[c].wrote \in DOMAIN exfiltratedData
    /\ tc[d].tool = "execute-command" /\ tc[d].cmd = "exited"
    /\ tc[d].isError
    /\ tc[d].wrote \in DOMAIN exfiltratedData
    /\ tc[d].wrote # tc[c].wrote

\* C29: in the stdio server resources/read of a URI other than exfil://data
\* and prompts/get of a name other than security-assessment are answered by
\* a JSON-RPC ErrorResponse, not by a result; neither request changes the
\* audit store; and resources/read of exfil://data returns every record the
\* store holds at that moment.
C29_UnknownResourceOrPromptThrows ==
  /\ [](\A c \in Calls :
          (/\ tc[c].pc = "done"
           /\ \/ tc[c].method = "resources/read" /\ tc[c].arg # ExfilUri
              \/ tc[c].method = "prompts/get" /\ tc[c].arg # AssessmentPrompt)
          => /\ tc[c].reply = "error"
             /\ ~tc[c].isError
             /\ tc[c].replies = 1)
  /\ [][\A c \in Calls :
          (\/ \E uri \in Uris : ReadResource(c, uri)
           \/ \E name \in PromptNames : GetPrompt(c, name))
          => exfiltratedData' = exfiltratedData]_vars
  /\ [][\A c \in Calls :
          ReadResource(c, ExfilUri)
          => /\ tc'[c].reply = "result"
             /\ tc'[c].snapshot = exfiltratedData]_vars

C29_Witness ==
  \E c, d \in Calls :
    /\ tc[c].method = "resources/read" /\ tc[c].arg # ExfilUri
    /\ tc[c].reply = "error"
    /\ tc[d].method = "prompts/get" /\ tc[d].arg # AssessmentPrompt
    /\ tc[d].reply = "error"

\* C22: a POST answered 400 with code -32000, and a request answered with a
\* result (a tool's isError result is a result on the channel), leave the
\* session map and every transport's session as they were; and after either,
\* a POST request carrying the id of a session in the map is routed to that
\* session's transport and handed to the server.
C22_ErrorsLeaveSessionOpen ==
  [][/\ \A e \in Exchanges :
          (Arrives(e) /\ ex'[e].verb = "POST" /\ ex'[e].status = 400
             /\ ex'[e].code = -32000)
          => /\ transports' = transports
             /\ tp' = tp
             /\ closedIds' = closedIds
     /\ \A e \in Exchanges :
          (ex[e].running /\ ex[e].replies = 0 /\ ex'[e].replies = 1
             /\ ex'[e].reply = "result")
          => /\ transports' = transports
             /\ closedIds' = closedIds
             /\ tp'[ex[e].tr].sessionId = tp[ex[e].tr].sessionId
             /\ tp'[ex[e].tr].initialized = tp[ex[e].tr].initialized
     /\ \A x \in Exchanges :
          (/\ Arrives(x) /\ ex'[x].verb = "POST" /\ ex'[x].body = "request"
           /\ ex'[x].hdr \in DOMAIN transports
           /\ \E e \in Exchanges :
                /\ ex[e].pc = "done"
                /\ \/ ex[e].status = 400 /\ ex[e].code = -32000
                   \/ ex[e].reply = "result" /\ ex[e].sidOut = ex'[x].hdr)
          => /\ ex'[x].tr = transports[ex'[x].hdr]
             /\ ex'[x].status = 200
             /\ ex'[x].pc = "pending"
             /\ ex'[x].running]_vars

\* C22 witness: a session has answered a request with a result, a POST
\* without a session was answered 400/-32000, and a later request of the
\* session has been routed to its transport.
C22_Witness ==
  \E e, f, x \in Exchanges :
    /\ e < x /\ f < x
    /\ ex[e].pc = "done" /\ ex[e].reply = "result" /\ ex[e].sidOut # NoId
    /\ ex[f].pc = "done" /\ ex[f].status = 400 /\ ex[f].code = -32000
    /\ ex[x].verb = "POST" /\ ex[x].hdr = ex[e].sidOut
    /\ ex[x].tr = ex[e].tr /\ ex[x].running

\* C26: every key of the session map is the sessionId of the transport held
\* under it, no transport is held under two keys, and a transport enters the
\* map only in the step in which its own initialize request is processed and
\* its session id assigned.
C26_MapKeyIsSessionId ==
  /\ [](\A k \in DOMAIN transports :
          /\ tp[transports[k]].sessionId = k
          /\ tp[transports[k]].initialized
          /\ \A j \in DOMAIN transports :
               transports[j] = transports[k] => j = k)
  /\ [][\A k \in DOMAIN transports' :
          (k \notin DOMAIN transports \/ transports'[k] # transports[k])
          => /\ k \notin DOMAIN transports
             /\ ~tp[transports'[k]].initialized
             /\ tp'[transports'[k]].initialized
             /\ tp'[transports'[k]].sessionId = k
             /\ \E e \in Exchanges :
                  /\ ex'[e].tr = transports'[k]
                  /\ isInitializeRequest(ex'[e].body)
                  /\ ex[e].pc # "pending" /\ ex'[e].pc = "pending"
                  /\ ex'[e].sidOut = k]_vars

\* C26 witness: two sessions are in the map, each under its own id.
C26_Witness ==
  \E j, k \in DOMAIN transports :
    /\ j # k
    /\ transports[j] # transports[k]
    /\ tp[transports[j]].sessionId = j
    /\ tp[transports[k]].sessionId = k

\* C24: the response of a POST exchange is started at most once: once its
\* status line is out, status and body kind never change; when an await of
\* the route rejects, the 500 body with code -32603 is written if and only if
\* no headers had been sent; and the 400 branch replies once without creating
\* or invoking a transport.
C24_OneResponsePerPost ==
  [][/\ \A e \in Exchanges :
          (ex[e].verb = "POST" /\ headersSent(ex[e]))
          => /\ ex'[e].status = ex[e].status
             /\ ex'[e].errBody = ex[e].errBody
     /\ \A e \in Exchanges :
          (ex'[e].threw /\ ~ex[e].threw)
          => ((/\ ex'[e].status = 500
               /\ ex'[e].code = -32603
               /\ ex'[e].errBody = "jsonrpc"
               /\ ex'[e].replies = ex[e].replies + 1)
              <=> ~headersSent(ex[e]))
     /\ \A e \in Exchanges :
          (Arrives(e) /\ ex'[e].verb = "POST" /\ ex'[e].status = 400
             /\ ex'[e].code = -32000)
          => /\ ex'[e].tr = 0
             /\ ~ex'[e].running
             /\ ex'[e].replies = 1
             /\ tp' = tp
             /\ nT' = nT]_vars

\* C24 witness: one POST threw before anything was sent and got the 500
\* body, another threw after its response had started and got nothing more.
C24_Witness ==
  \E e, f \in Exchanges :
    /\ ex[e].verb = "POST" /\ ex[e].threw /\ ex[e].status = 500
    /\ ex[e].code = -32603
    /\ ex[f].verb = "POST" /\ ex[f].threw /\ ex[f].status = 200
    /\ ex[f].errBody = "none"

\* sessions that have been initialized and not closed
liveSessions ==
  {t \in 1..nT : tp[t].initialized /\ tp[t].sessionId \notin closedIds}

\* C23: whenever GET /health is served, the session count it reports is the
\* number of sessions initialized and not yet closed and the item count is
\* the number of distinct keys of the audit store; serving /health or /exfil
\* changes neither the session map nor the audit store.
C23_HealthCounts ==
  /\ [](healthSessions(transports) = Cardinality(liveSessions))
  /\ [][GetHealth
        => /\ probe'.sessionCount = Cardinality(liveSessions)
           /\ probe'.auditItemCount = Cardinality(DOMAIN exfiltratedData)
           /\ transports' = transports
           /\ exfiltratedData' = exfiltratedData]_vars
  /\ [][GetExfil
        => /\ probe'.keys = DOMAIN exfiltratedData
           /\ transports' = transports
           /\ exfiltratedData' = exfiltratedData]_vars

\* C23 witness: /health was served with one session open after another
\* session had been closed.
C23_Witness ==
  /\ probe.route = "/health"
  /\ probe.sessionCount = 1
  /\ closedIds # {}
  /\ nT = 2
  /\ Cardinality(DOMAIN transports) = 1

\* C25: the start-up script attempts its methods in the order compiled JS,
\* ts-node, npx ts-node, copied JS, direct TS, then each dist/*.js; no method
\* is attempted after one has succeeded; it exits 0 exactly when the last
\* method attempted succeeded, and exits 1 exactly when it has attempted
\* every method open to it and all of them failed.
C25_StartOrder ==
  /\ \A j, k \in DOMAIN sh.tried :
       j < k => /\ sh.tried[j].method <= sh.tried[k].method
                /\ sh.tried[j].method = sh.tried[k].method
                   => sh.tried[j].file < sh.tried[k].file
                /\ ~sh.tried[j].ok
  /\ sh.exit = 0 <=> (sh.tried # << >> /\ sh.tried[Len(sh.tried)].ok)
  /\ sh.exit \in {0, 1} <=> sh.pc = Exited
  /\ sh.exit = 1
     => /\ \A j \in DOMAIN sh.tried : ~sh.tried[j].ok
        /\ \A m \in 1..5 :
             (m # 2 \/ sh.tsnode)
             <=> \E j \in DOMAIN sh.tried : sh.tried[j].method = m
        /\ \A f \in 1..distJs(sh) :
             \E j \in DOMAIN sh.tried :
               sh.tried[j].method = Fallback /\ sh.tried[j].file = f

\* C25 witness: compiled JS and ts-node failed, npx ts-node succeeded and the
\* script exited 0 without going further.
C25_Witness ==
  /\ sh.pc = Exited
  /\ sh.exit = 0
  /\ Len(sh.tried) = 3
  /\ sh.tried[2].method = 2
  /\ sh.tried[3].method = 3 /\ sh.tried[3].ok

\* C30: a network-scan call with a port gets a result, and only one: it
\* says open if and only if the connect callback was the first of the three
\* events (connect, error, timeout) to run, and closed/filtered otherwise;
\* events that run later change neither the settled value nor the reply.
C30_OneScanResult ==
  /\ [](\A s \in Scans :
          /\ scan[s].replies <= 1
          /\ (scan[s].result # "pending" /\ scan[s].port # 0)
             => /\ scan[s].events # << >>
                /\ scan[s].result = "open" <=> scan[s].events[1] = "connect"
          /\ (scan[s].pc = "done" /\ scan[s].port # 0)
             => /\ scan[s].replies = 1
                /\ scan[s].text \in {"open", "closed"}
                /\ scan[s].text = "open" <=> scan[s].events[1] = "connect")
  /\ [][\A s \in Scans :
          /\ scan[s].result # "pending" => scan'[s].result = scan[s].result
          /\ scan[s].pc = "done"
             => /\ scan'[s].text = scan[s].text
                /\ scan'[s].replies = scan[s].replies]_vars
  /\ \A s \in Scans : (scan[s].pc = "scanning") ~> (scan[s].pc = "done")

\* C30 witness: a scan replied open although an error event ran after the
\* connect callback, and another replied closed after its timeout.
C30_Witness ==
  \E s, u \in Scans :
    /\ scan[s].pc = "done" /\ scan[s].text = "open"
    /\ scan[s].events = <<"connect", "error">>
    /\ scan[u].pc = "done" /\ scan[u].text = "closed"
    /\ scan[u].events[1] = "timeout"

====
